---- MODULE Spec2Model ----
(***************************************************************************)
(* Transactions Live Dashboard (src/app.py).                               *)
(*                                                                         *)
(* The script is re-run from top to bottom on every refresh.  One run:     *)
(* load_data (cached, ttl = 5 s) reads the two CSV files and builds the    *)
(* organized view, the empty check may stop the run, the window filter     *)
(* truncates the three tables, and the KPIs are computed.                  *)
(*                                                                         *)
(* Time is counted in whole units: the cache clock in seconds, the         *)
(* timestamps of the rows in minutes.  A CSV file is the sequence of its   *)
(* data rows; a count cell is text, a timestamp cell is a parseable        *)
(* instant (given as its minute number).                                   *)
(***************************************************************************)
EXTENDS Integers, Sequences, FiniteSets, TLC

VARIABLES
    fileStatus,     \* content of TRANSACTIONS_CSV: rows [ts, status, count]
    fileAuth,       \* content of AUTH_CODES_CSV: rows [ts, auth_code, count]
    clock,          \* wall clock of the cache, in seconds
    cache,          \* st.cache_data entry of load_data: <<>> or <<[computed_at, payload]>>
    pc,             \* position of the script run
    window_choice,  \* value of the "Time window" selectbox in this run
    ld_status,      \* load_data's local df_status (<<>> before it is read)
    ld_auth,        \* load_data's local df_auth
    ld_organized,   \* load_data's local organized_df
    ret,            \* what load_data returned to this run: <<>> or <<payload>>
    hit,            \* whether this run's call was served from the cache
    callTime,       \* clock value at this run's call of load_data
    bodyRuns,       \* how many times the body of load_data has started
    last,           \* previous run's call: <<>> or <<[ret, runs, computed_at]>>
    df_status,      \* module-level df_status (reassigned by the window filter)
    df_auth,        \* module-level df_auth
    organized_df,   \* module-level organized_df
    max_ts,         \* <<>> until line 114 ran, then <<max_ts>>
    start_ts,       \* <<>> for None, else <<start_ts>>
    kpi             \* <<>> until the KPI block ran, then <<[total_tx, ...]>>

vars == <<fileStatus, fileAuth, clock, cache, pc, window_choice, ld_status,
          ld_auth, ld_organized, ret, hit, callTime, bodyRuns, last,
          df_status, df_auth, organized_df, max_ts, start_ts, kpi>>

(***************************************************************************)
(* Bounds of the model.                                                    *)
(***************************************************************************)
MaxClock == 6
MaxStatusRows == 2
MaxAuthRows == 2
MaxWindowAuthRows == 1

(***************************************************************************)
(* Program constants.                                                      *)
(***************************************************************************)
TTL == 5

WindowChoices == {"15 minutes", "1 hour", "6 hours", "All"}

SixStatuses == {"approved", "denied", "reversed", "backend_reversed",
                "failed", "refunded"}

\* SQL NULL / Python None, and a present value, kept apart from the integers.
NULL == <<>>
Some(x) == <<x>>

(***************************************************************************)
(* Helpers.                                                                *)
(***************************************************************************)
RECURSIVE SumFun(_, _)
SumFun(f, S) ==
    IF S = {} THEN 0
    ELSE LET x == CHOOSE y \in S : TRUE
         IN  f[x] + SumFun(f, S \ {x})

SumCount(df) == SumFun([i \in DOMAIN df |-> df[i].count], DOMAIN df)

SeqsUpTo(S, n) == UNION {[1..k -> S] : k \in 0..n}

(***************************************************************************)
(* Source reader: CAST(count AS BIGINT) over read_csv_auto.                *)
(***************************************************************************)
Numeric(cell) == cell \in {"-2", "-1", "0", "1", "2", "3"}

CastBigint(cell) ==
    CASE cell = "-2" -> -2
      [] cell = "-1" -> -1
      [] cell = "0" -> 0
      [] cell = "1" -> 1
      [] cell = "2" -> 2
      [] cell = "3" -> 3

\* The query raises (a conversion error) unless every count cell casts.
CastOk(file) == \A i \in DOMAIN file : Numeric(file[i].count)

ReadStatus(file) ==
    [i \in DOMAIN file |->
        [ts |-> file[i].ts, status |-> file[i].status,
         count |-> CastBigint(file[i].count)]]

ReadAuth(file) ==
    [i \in DOMAIN file |->
        [ts |-> file[i].ts, auth_code |-> file[i].auth_code,
         count |-> CastBigint(file[i].count)]]

(***************************************************************************)
(* Organized view: the SQL of lines 68-95 over the two tables it re-reads. *)
(***************************************************************************)
\* a00 AS (SELECT ts, count AS auth_00_count FROM ac WHERE auth_code = '00')
A00(ac) == SelectSeq(ac, LAMBDA r : r.auth_code = "00")

\* FROM t LEFT JOIN a00 USING (ts): one joined row <<i, j>> per status row i
\* and matching a00 row j, and <<i, 0>> (a00 side NULL) when none matches.
Joined(t, a00) ==
    UNION { LET m == {j \in DOMAIN a00 : a00[j].ts = t[i].ts}
            IN  IF m = {} THEN {<<i, 0>>} ELSE {<<i, j>> : j \in m}
          : i \in DOMAIN t }

JoinedA00Count(a00, p) == IF p[2] = 0 THEN NULL ELSE Some(a00[p[2]].count)

\* GROUP BY t.ts, a00.auth_00_count
GroupKey(t, a00, p) == <<t[p[1]].ts, JoinedA00Count(a00, p)>>

\* SUM(CASE WHEN t.status = s THEN t.count ELSE 0 END) over one group
SumCase(t, a00, k, s) ==
    LET g == {p \in Joined(t, a00) : GroupKey(t, a00, p) = k}
    IN  SumFun([p \in g |-> IF t[p[1]].status = s THEN t[p[1]].count ELSE 0], g)

OrganizedRows(t, ac) ==
    LET a00 == A00(ac)
    IN  { [ts |-> k[1],
           approved |-> SumCase(t, a00, k, "approved"),
           denied |-> SumCase(t, a00, k, "denied"),
           reversed |-> SumCase(t, a00, k, "reversed"),
           backend_reversed |-> SumCase(t, a00, k, "backend_reversed"),
           failed |-> SumCase(t, a00, k, "failed"),
           refunded |-> SumCase(t, a00, k, "refunded"),
           auth_00_count |-> k[2]]
          : k \in {GroupKey(t, a00, p) : p \in Joined(t, a00)} }

\* ORDER BY t.ts: every arrangement of the rows that ascends in ts (the
\* order of rows with equal ts is not fixed by the query).
OrderByTs(rows) ==
    LET n == Cardinality(rows)
    IN  { o \in [1..n -> rows] :
            /\ \A i, j \in 1..n : i # j => o[i] # o[j]
            /\ \A i, j \in 1..n : i < j => o[i].ts <= o[j].ts }

\* The CTEs t and ac read the two files again, inside this query.
OrganizedQuery(fs, fa) == OrderByTs(OrganizedRows(ReadStatus(fs), ReadAuth(fa)))

Payload(s, a, o) == [status |-> s, auth |-> a, organized |-> o]

(***************************************************************************)
(* Cache layer: @st.cache_data(ttl=5).                                     *)
(***************************************************************************)
\* Variant: an entry of age exactly ttl still counts as fresh.
CacheFreshInclusive(entry, now) == now - entry.computed_at <= TTL

\* Variant: the age is taken in milliseconds and compared with ttl in seconds.
CacheFreshMillis(entry, now) == (now - entry.computed_at) * 1000 < TTL

\* An entry is served while it is younger than ttl.
CacheFresh(entry, now) == now - entry.computed_at < TTL

CacheHit == cache # <<>> /\ CacheFresh(cache[1], clock)

(***************************************************************************)
(* Window filter and KPIs (module level, lines 109-145).                   *)
(***************************************************************************)
IsEmpty(df) == Len(df) = 0

\* Variant: stop only when both tables are empty.
NoDataBoth(s, a) == IsEmpty(s) /\ IsEmpty(a)

\* df_status.empty or df_auth.empty
NoData(s, a) == IsEmpty(s) \/ IsEmpty(a)

\* df["ts"].max(); NULL (NaT) on an empty table
TsMax(df) ==
    IF IsEmpty(df) THEN NULL
    ELSE Some(CHOOSE m \in {df[i].ts : i \in DOMAIN df} :
                \A i \in DOMAIN df : df[i].ts <= m)

\* max(df_status["ts"].max(), df_auth["ts"].max())
MaxTs(s, a) ==
    IF TsMax(s) = NULL THEN TsMax(a)
    ELSE IF TsMax(a) = NULL THEN TsMax(s)
    ELSE IF TsMax(s)[1] >= TsMax(a)[1] THEN TsMax(s) ELSE TsMax(a)

\* timedelta(minutes=15), timedelta(hours=1), timedelta(hours=6), in minutes
Duration(w) ==
    CASE w = "15 minutes" -> 15
      [] w = "1 hour" -> 1 * 60
      [] w = "6 hours" -> 6 * 60

StartTs(w, m) == IF w = "All" THEN NULL ELSE Some(m - Duration(w))

\* Variant: exclusive lower bound.
InWindowStrict(r, start) == r.ts > start

\* df.loc[df["ts"] >= start_ts]
InWindow(r, start) == r.ts >= start

Restrict(df, st) ==
    IF st = NULL THEN df ELSE SelectSeq(df, LAMBDA r : InWindow(r, st[1]))

\* Variant: the division without its guard.
ApprovalRateUnguarded(approved_total, total_tx) ==
    [num |-> approved_total * 100, den |-> total_tx]

\* approval_rate, as the exact fraction num/den
ApprovalRate(approved_total, total_tx) ==
    IF total_tx # 0
    THEN [num |-> approved_total * 100, den |-> total_tx]
    ELSE [num |-> 0, den |-> 1]

Kpis(s, a) ==
    LET total_tx == SumCount(s)
        approved_total == SumCount(SelectSeq(s, LAMBDA r : r.status = "approved"))
        a00_total == SumCount(SelectSeq(a, LAMBDA r : r.auth_code = "00"))
    IN  [total_tx |-> total_tx,
         approved_total |-> approved_total,
         a00_total |-> a00_total,
         approval_rate |-> ApprovalRate(approved_total, total_tx)]

(***************************************************************************)
(* Input domains.                                                          *)
(***************************************************************************)
StatusRow(t, s, c) == [ts |-> t, status |-> s, count |-> c]
AuthRow(t, a, c) == [ts |-> t, auth_code |-> a, count |-> c]

\* File contents another process may put in place while the dashboard runs.
StatusVersions == {<<StatusRow(0, "approved", "1")>>, <<StatusRow(0, "approved", "2")>>}
AuthVersions == {<<AuthRow(0, "00", "1")>>, <<AuthRow(0, "00", "2")>>}

\* Inputs that exercise the cast, the join and the grouping.
LoadStatusRows ==
    {StatusRow(t, s, c) : t \in {0, 1}, s \in {"approved", "chargeback"},
                          c \in {"-1", "1", "x"}}
LoadAuthRows ==
    {AuthRow(t, "00", c) : t \in {0, 1}, c \in {"1", "2"}}
        \cup {AuthRow(t, "51", "1") : t \in {0, 1}}

\* Inputs that exercise the window boundaries: 16 - 15 = 61 - 60 = 361 - 360 = 1.
WindowTs == {0, 1, 16, 61, 361}
WindowStatusRows == {StatusRow(t, s, "1") : t \in WindowTs, s \in {"approved", "denied"}}
WindowAuthRows == {AuthRow(t, "00", "1") : t \in WindowTs}

(***************************************************************************)
(* Initial states: the files as found, nothing cached, no run started.     *)
(***************************************************************************)
Start(fs, fa) ==
    /\ fileStatus = fs
    /\ fileAuth = fa
    /\ clock = 0
    /\ cache = <<>>
    /\ pc = "idle"
    /\ window_choice = "1 hour"
    /\ ld_status = <<>>
    /\ ld_auth = <<>>
    /\ ld_organized = <<>>
    /\ ret = <<>>
    /\ hit = FALSE
    /\ callTime = 0
    /\ bodyRuns = 0
    /\ last = <<>>
    /\ df_status = <<>>
    /\ df_auth = <<>>
    /\ organized_df = <<>>
    /\ max_ts = NULL
    /\ start_ts = NULL
    /\ kpi = <<>>

Init == \E fs \in StatusVersions, fa \in AuthVersions : Start(fs, fa)

InitLoad ==
    \E fs \in SeqsUpTo(LoadStatusRows, MaxStatusRows),
       fa \in SeqsUpTo(LoadAuthRows, MaxAuthRows) : Start(fs, fa)

InitWindow ==
    \E fs \in SeqsUpTo(WindowStatusRows, MaxStatusRows),
       fa \in SeqsUpTo(WindowAuthRows, MaxWindowAuthRows) : Start(fs, fa)

(***************************************************************************)
(* The script run.                                                         *)
(***************************************************************************)
runLocals == <<ld_status, ld_auth, ld_organized>>
runTables == <<df_status, df_auth, organized_df>>
files == <<fileStatus, fileAuth>>

BeginRun(w) ==
    /\ pc' = "call"
    /\ window_choice' = w
    /\ ld_status' = <<>>
    /\ ld_auth' = <<>>
    /\ ld_organized' = <<>>
    /\ ret' = <<>>
    /\ hit' = FALSE
    /\ df_status' = <<>>
    /\ df_auth' = <<>>
    /\ organized_df' = <<>>
    /\ max_ts' = NULL
    /\ start_ts' = NULL
    /\ kpi' = <<>>
    /\ UNCHANGED <<files, clock, cache, callTime, bodyRuns>>

\* First run of the script (lines 22-37: the controls are read).
FirstRun(w) ==
    /\ pc = "idle"
    /\ BeginRun(w)
    /\ UNCHANGED last

\* st_autorefresh (line 37) or a changed control re-runs the finished script.
AutoRefresh(w) ==
    /\ pc \in {"done", "nodata", "error"}
    /\ BeginRun(w)
    /\ last' = IF ret = <<>> THEN <<>>
               ELSE <<[ret |-> ret[1], runs |-> bodyRuns,
                       computed_at |-> cache[1].computed_at]>>

\* Line 107: the call of the cached load_data.  A fresh entry is returned
\* as it is; otherwise the body runs.
CallLoadData ==
    /\ pc = "call"
    /\ callTime' = clock
    /\ IF CacheHit
       THEN /\ hit' = TRUE
            /\ ret' = <<cache[1].payload>>
            /\ df_status' = cache[1].payload.status
            /\ df_auth' = cache[1].payload.auth
            /\ organized_df' = cache[1].payload.organized
            /\ pc' = "empty_check"
            /\ UNCHANGED bodyRuns
       ELSE /\ hit' = FALSE
            /\ bodyRuns' = bodyRuns + 1
            /\ pc' = "read_status"
            /\ UNCHANGED <<ret, runTables>>
    /\ UNCHANGED <<files, clock, cache, window_choice, runLocals, last,
                   max_ts, start_ts, kpi>>

\* Lines 49-56.
LoadStatus ==
    /\ pc = "read_status"
    /\ IF CastOk(fileStatus)
       THEN ld_status' = ReadStatus(fileStatus) /\ pc' = "read_auth"
       ELSE ld_status' = ld_status /\ pc' = "error"
    /\ UNCHANGED <<files, clock, cache, window_choice, ld_auth, ld_organized,
                   ret, hit, callTime, bodyRuns, last, runTables, max_ts,
                   start_ts, kpi>>

\* Lines 58-65.
LoadAuth ==
    /\ pc = "read_auth"
    /\ IF CastOk(fileAuth)
       THEN ld_auth' = ReadAuth(fileAuth) /\ pc' = "read_organized"
       ELSE ld_auth' = ld_auth /\ pc' = "error"
    /\ UNCHANGED <<files, clock, cache, window_choice, ld_status, ld_organized,
                   ret, hit, callTime, bodyRuns, last, runTables, max_ts,
                   start_ts, kpi>>

\* Lines 68-95.
LoadOrganized ==
    /\ pc = "read_organized"
    /\ IF CastOk(fileStatus) /\ CastOk(fileAuth)
       THEN \E o \in OrganizedQuery(fileStatus, fileAuth) :
                ld_organized' = o /\ pc' = "return"
       ELSE ld_organized' = ld_organized /\ pc' = "error"
    /\ UNCHANGED <<files, clock, cache, window_choice, ld_status, ld_auth,
                   ret, hit, callTime, bodyRuns, last, runTables, max_ts,
                   start_ts, kpi>>

\* Line 97 and the decorator: the result is stored with computed_at = now
\* and handed to line 107.
ReturnLoadData ==
    /\ pc = "return"
    /\ LET p == Payload(ld_status, ld_auth, ld_organized)
       IN  /\ cache' = <<[computed_at |-> clock, payload |-> p]>>
           /\ ret' = <<p>>
           /\ df_status' = p.status
           /\ df_auth' = p.auth
           /\ organized_df' = p.organized
    /\ pc' = "empty_check"
    /\ UNCHANGED <<files, clock, window_choice, runLocals, hit, callTime,
                   bodyRuns, last, max_ts, start_ts, kpi>>

\* Lines 109-111.
EmptyCheck ==
    /\ pc = "empty_check"
    /\ pc' = IF NoData(df_status, df_auth) THEN "nodata" ELSE "window"
    /\ UNCHANGED <<files, clock, cache, window_choice, runLocals, ret, hit,
                   callTime, bodyRuns, last, runTables, max_ts, start_ts, kpi>>

\* Lines 114-130.
WindowFilter ==
    /\ pc = "window"
    /\ LET m == MaxTs(df_status, df_auth)
       IN  /\ m # NULL
           /\ max_ts' = m
           /\ start_ts' = StartTs(window_choice, m[1])
    /\ df_status' = Restrict(df_status, start_ts')
    /\ df_auth' = Restrict(df_auth, start_ts')
    /\ organized_df' = Restrict(organized_df, start_ts')
    /\ pc' = "kpi"
    /\ UNCHANGED <<files, clock, cache, window_choice, runLocals, ret, hit,
                   callTime, bodyRuns, last, kpi>>

\* Lines 133-145.
KpiBlock ==
    /\ pc = "kpi"
    /\ kpi' = <<Kpis(df_status, df_auth)>>
    /\ pc' = "done"
    /\ UNCHANGED <<files, clock, cache, window_choice, runLocals, ret, hit,
                   callTime, bodyRuns, last, runTables, max_ts, start_ts>>

(***************************************************************************)
(* The environment: time passes, and the producers of the two CSV files    *)
(* replace them at any moment.                                             *)
(***************************************************************************)
Tick ==
    /\ clock < MaxClock
    /\ clock' = clock + 1
    /\ UNCHANGED <<files, cache, pc, window_choice, runLocals, ret, hit,
                   callTime, bodyRuns, last, runTables, max_ts, start_ts, kpi>>

WriteStatus(v) ==
    /\ v # fileStatus
    /\ fileStatus' = v
    /\ UNCHANGED <<fileAuth, clock, cache, pc, window_choice, runLocals, ret,
                   hit, callTime, bodyRuns, last, runTables, max_ts, start_ts, kpi>>

WriteAuth(v) ==
    /\ v # fileAuth
    /\ fileAuth' = v
    /\ UNCHANGED <<fileStatus, clock, cache, pc, window_choice, runLocals, ret,
                   hit, callTime, bodyRuns, last, runTables, max_ts, start_ts, kpi>>

(***************************************************************************)
(* Specifications.                                                         *)
(***************************************************************************)
RunStep ==
    \/ CallLoadData
    \/ LoadStatus
    \/ LoadAuth
    \/ LoadOrganized
    \/ ReturnLoadData
    \/ EmptyCheck
    \/ WindowFilter
    \/ KpiBlock

\* One script run over files that do not change.
NextRun ==
    \/ \E w \in WindowChoices : FirstRun(w)
    \/ RunStep

\* The dashboard refreshing while time passes and the files are rewritten.
Next ==
    \/ \E w \in WindowChoices : FirstRun(w)
    \/ \E w \in WindowChoices : AutoRefresh(w)
    \/ RunStep
    \/ Tick
    \/ \E v \in StatusVersions : WriteStatus(v)
    \/ \E v \in AuthVersions : WriteAuth(v)

Spec == Init /\ [][Next]_vars

SpecLoad == InitLoad /\ [][NextRun]_vars

SpecWindow == InitWindow /\ [][NextRun]_vars

(***************************************************************************)
(* Properties.                                                             *)
(***************************************************************************)
Rows(df) == {df[i] : i \in DOMAIN df}

Occurrences(df, r) == Cardinality({i \in DOMAIN df : df[i] = r})

SixSum(r) ==
    r.approved + r.denied + r.reversed + r.backend_reversed + r.failed + r.refunded

\* Sum of the parsed counts of the rows of a file chosen by the index set I.
RawSum(file, I) == SumFun([i \in I |-> CastBigint(file[i].count)], I)

OrganizedAt(org, t) == {i \in DOMAIN org : org[i].ts = t}

Raw00At(file, t) ==
    {i \in DOMAIN file : file[i].ts = t /\ file[i].auth_code = "00"}

StatusesAt(file, t) == {file[i].status : i \in {j \in DOMAIN file : file[j].ts = t}}

\* C1: for every timestamp t of the status source, the six status columns
\* summed over the organized rows at t equal the raw status counts at t.
\* Stated here for the timestamps whose statuses are all among the six named
\* ones, where every raw count has a column (the claim asks it of the other
\* timestamps too); the auth source is unrestricted.
GroupingSumsMatchRaw ==
    ret # <<>> =>
        \A t \in {fileStatus[i].ts : i \in DOMAIN fileStatus} :
            StatusesAt(fileStatus, t) \subseteq SixStatuses =>
            LET org == ret[1].organized
                at == OrganizedAt(org, t)
            IN  SumFun([i \in at |-> SixSum(org[i])], at)
                    = RawSum(fileStatus, {i \in DOMAIN fileStatus : fileStatus[i].ts = t})

\* C2: every timestamp t of the organized table has one organized row, and
\* its auth_00_count is the sum of the raw auth counts at t with auth_code
\* '00' (zero or absent when there is none).
Auth00IsSumOnOneRow ==
    ret # <<>> =>
        LET org == ret[1].organized
        IN  \A t \in {org[i].ts : i \in DOMAIN org} :
                LET raw == Raw00At(fileAuth, t)
                IN  /\ Cardinality(OrganizedAt(org, t)) = 1
                    /\ \A i \in OrganizedAt(org, t) :
                          IF raw = {}
                          THEN org[i].auth_00_count \in {NULL, Some(0)}
                          ELSE org[i].auth_00_count = Some(RawSum(fileAuth, raw))

\* C3: a '00' auth row at a timestamp without status rows yields an organized
\* row at that timestamp with six zero status columns and that auth_00_count.
AuthOnlyTimestampEmitted ==
    ret # <<>> =>
        \A j \in DOMAIN fileAuth :
            (/\ fileAuth[j].auth_code = "00"
             /\ \A i \in DOMAIN fileStatus : fileStatus[i].ts # fileAuth[j].ts)
            => \E k \in DOMAIN ret[1].organized :
                  LET r == ret[1].organized[k]
                  IN  /\ r.ts = fileAuth[j].ts
                      /\ SixSum(r) = 0
                      /\ r.approved = 0 /\ r.denied = 0 /\ r.reversed = 0
                      /\ r.backend_reversed = 0 /\ r.failed = 0 /\ r.refunded = 0
                      /\ r.auth_00_count
                            = Some(RawSum(fileAuth, Raw00At(fileAuth, r.ts)))

\* C9: load_data never returns a table that holds a negative count.
NoNegativeCountReturned ==
    ret # <<>> =>
        /\ \A i \in DOMAIN ret[1].status : ret[1].status[i].count >= 0
        /\ \A i \in DOMAIN ret[1].auth : ret[1].auth[i].count >= 0
        /\ \A i \in DOMAIN ret[1].organized :
              LET r == ret[1].organized[i]
              IN  /\ r.approved >= 0 /\ r.denied >= 0 /\ r.reversed >= 0
                  /\ r.backend_reversed >= 0 /\ r.failed >= 0 /\ r.refunded >= 0
                  /\ (r.auth_00_count # NULL => r.auth_00_count[1] >= 0)

\* C4: the three tables a call returns come from one version of the status
\* source and one version of the auth source.
SingleSnapshot ==
    ret # <<>> =>
        \E fs \in StatusVersions, fa \in AuthVersions :
            /\ ret[1].status = ReadStatus(fs)
            /\ ret[1].auth = ReadAuth(fa)
            /\ ret[1].organized \in OrganizedQuery(fs, fa)

\* C5: a payload served from the cache is younger than ttl at the call that
\* returns it; an entry of age >= ttl is not served, the body runs instead,
\* and its result replaces the entry, stamped with a time of this call.
ExpiredEntryNeverServed ==
    /\ (ret # <<>> /\ hit) =>
          /\ cache # <<>>
          /\ ret[1] = cache[1].payload
          /\ callTime - cache[1].computed_at < TTL
    /\ (pc \notin {"idle", "call"} /\ last # <<>>
            /\ callTime - last[1].computed_at >= TTL) => ~hit
    /\ (ret # <<>> /\ ~hit) =>
          /\ cache # <<>>
          /\ cache[1].payload = ret[1]
          /\ callTime <= cache[1].computed_at
          /\ cache[1].computed_at <= clock

\* A run that found the previous entry expired has stored a new one.
ExpiredEntryReplaced ==
    /\ ret # <<>>
    /\ ~hit
    /\ last # <<>>
    /\ callTime - last[1].computed_at >= TTL
    /\ cache[1].computed_at > last[1].computed_at

AnchorTs ==
    LET ts == {r.ts : r \in Rows(ret[1].status) \cup Rows(ret[1].auth)}
    IN  CHOOSE m \in ts : \A t \in ts : t <= m

WindowMinutes ==
    CASE window_choice = "15 minutes" -> 15
      [] window_choice = "1 hour" -> 60
      [] window_choice = "6 hours" -> 360

KeptFrom(before, after, start) ==
    \A r \in Rows(before) \cup Rows(after) :
        Occurrences(after, r) = IF r.ts >= start THEN Occurrences(before, r) ELSE 0

\* C7: after the filter, each of the three tables holds exactly the rows it
\* held before whose ts >= max_ts - duration, with max_ts taken over both
\* source tables; 'All' leaves the three tables unchanged.
WindowKeepsExactlyFromStart ==
    pc \in {"kpi", "done"} =>
        IF window_choice = "All"
        THEN /\ df_status = ret[1].status
             /\ df_auth = ret[1].auth
             /\ organized_df = ret[1].organized
        ELSE LET start == AnchorTs - WindowMinutes
             IN  /\ start_ts = Some(start)
                 /\ KeptFrom(ret[1].status, df_status, start)
                 /\ KeptFrom(ret[1].auth, df_auth, start)
                 /\ KeptFrom(ret[1].organized, organized_df, start)

\* A bounded window with a status row exactly at start_ts (kept) and one a
\* unit earlier (dropped).
BoundaryRowKeptEarlierDropped ==
    /\ pc = "kpi"
    /\ window_choice # "All"
    /\ \E r \in Rows(ret[1].status) : r.ts = start_ts[1] /\ r \in Rows(df_status)
    /\ \E r \in Rows(ret[1].status) : r.ts = start_ts[1] - 1 /\ r \notin Rows(df_status)
    /\ \E r \in Rows(ret[1].organized) : r.ts = start_ts[1] /\ r \in Rows(organized_df)
    /\ \E r \in Rows(ret[1].organized) : r.ts = start_ts[1] - 1 /\ r \notin Rows(organized_df)

\* C8: when load_data returned an empty status table or an empty auth table,
\* the run stops in the no-data state: max_ts is not computed, nothing is
\* filtered, no KPI is computed and no exception ends the run.
EmptyTableStopsBeforeWindow ==
    (ret # <<>> /\ (Len(ret[1].status) = 0 \/ Len(ret[1].auth) = 0))
    => /\ pc \in {"empty_check", "nodata"}
       /\ max_ts = NULL
       /\ start_ts = NULL
       /\ kpi = <<>>
       /\ df_status = ret[1].status
       /\ df_auth = ret[1].auth
       /\ organized_df = ret[1].organized

\* Empty status source, non-empty auth source, run stopped with the warning.
EmptyStatusStopped ==
    /\ pc = "nodata"
    /\ ret # <<>>
    /\ Len(ret[1].status) = 0
    /\ Len(ret[1].auth) > 0

InWindowRows(df) ==
    IF window_choice = "All" THEN DOMAIN df
    ELSE {i \in DOMAIN df : df[i].ts >= AnchorTs - WindowMinutes}

\* C10: the approval rate is approved_total / total_tx * 100 over the status
\* rows inside the window when total_tx # 0, and 0.0 when total_tx = 0; its
\* denominator is never zero.
ApprovalRateGuarded ==
    pc = "done" =>
        LET s == ret[1].status
            I == InWindowRows(s)
            total == SumFun([i \in I |-> s[i].count], I)
            A == {i \in I : s[i].status = "approved"}
            approved == SumFun([i \in A |-> s[i].count], A)
            rate == kpi[1].approval_rate
        IN  /\ kpi[1].total_tx = total
            /\ kpi[1].approved_total = approved
            /\ rate.den # 0
            /\ IF total # 0
               THEN rate.num * total = approved * 100 * rate.den
               ELSE rate.num = 0

\* Both sources non-empty, yet the window holds no status row: total_tx = 0.
ZeroTotalWithData ==
    /\ pc = "done"
    /\ Len(ret[1].status) > 0
    /\ Len(ret[1].auth) > 0
    /\ kpi[1].total_tx = 0
    /\ kpi[1].approval_rate = [num |-> 0, den |-> 1]

====
